---- MODULE Spec2Model ----
(***************************************************************************)
(* Model of the key register of package jwt (register.go): the registry of *)
(* credentials (KeyRegister), signature verification of a token against it *)
(* (KeyRegister.Check) and loading of PEM encoded keys                     *)
(* (KeyRegister.LoadPEM with its helper add).                              *)
(*                                                                         *)
(* Cryptographic values are abstract.  A key is named by an identifier; a  *)
(* token carries the set `valid` of the key materials with which the       *)
(* primitive selected by its header (HMAC compare, rsa.VerifyPKCS1v15,     *)
(* ecdsa.Verify) accepts its content and signature.  A pointer is a set of *)
(* at most one element: {} is nil.                                         *)
(***************************************************************************)
EXTENDS Integers, Sequences, FiniteSets, TLC

VARIABLES
    ECDSAs,     \* reg.ECDSAs  []*ecdsa.PublicKey
    RSAs,       \* reg.RSAs    []*rsa.PublicKey
    Secrets,    \* reg.Secrets [][]byte
    op,         \* "idle", or the call made last: "Append", "Check" or "LoadPEM"
    arg,        \* the arguments of that call
    res         \* what that call returned, with the trace of what it did

vars == <<ECDSAs, RSAs, Secrets, op, arg, res>>

\* Bounds of the model.
MaxCreds == 3       \* credentials held by the registry, all lists together
MaxBlocks == 2      \* items in one LoadPEM buffer

(***************************************************************************)
(* Values                                                                  *)
(***************************************************************************)
nil == "nil"

ErrSigMiss == "ErrSigMiss"
ErrAlgUnk == "ErrAlgUnk"
ErrUnsecured == "ErrUnsecured"
errMalformed == "errMalformed"
errUnencryptedPEM == "errUnencryptedPEM"
IncorrectPasswordError == "x509.IncorrectPasswordError"
errParse == "x509 parse error"
errUnknownPEMType == "jwt: unknown PEM type"
errUnsupportedKeyType == "jwt: unsupported key type"

RSAPublicKeys == {"r1", "r2"}       \* values of type *rsa.PublicKey
ECDSAPublicKeys == {"e1", "e2"}     \* values of type *ecdsa.PublicKey
OtherPublicKeys == {"o1"}           \* any other key type x509 can parse
\* Byte strings a caller may register as HMAC secret: a secret, and the
\* encoding of the RSA public key r1.
SecretBytes == {"s1", "r1"}

\* The private scalar that belongs to a public key.
PrivateOf(k) == "d:" \o k
PrivateMaterial == {PrivateOf(k) : k \in RSAPublicKeys \cup ECDSAPublicKeys}

Reg == [ECDSAs |-> ECDSAs, RSAs |-> RSAs, Secrets |-> Secrets]

NoHash == "Hash(0)"

(***************************************************************************)
(* The identifier tables and the token helpers of the package.             *)
(***************************************************************************)
HMACAlgs == [a \in {"HS256", "HS384", "HS512"} |->
                CASE a = "HS256" -> "SHA256" [] a = "HS384" -> "SHA384" [] OTHER -> "SHA512"]
RSAAlgs == [a \in {"RS256", "RS384", "RS512"} |->
                CASE a = "RS256" -> "SHA256" [] a = "RS384" -> "SHA384" [] OTHER -> "SHA512"]
ECDSAAlgs == [a \in {"ES256", "ES384", "ES512"} |->
                CASE a = "ES256" -> "SHA256" [] a = "ES384" -> "SHA384" [] OTHER -> "SHA512"]

\* header.match(algs): the hash of the identifier in the closed table, the
\* distinct error for the unsecured algorithm, ErrAlgUnk for any other miss.
match(header, algs) ==
    IF header.Alg = "none" THEN [hash |-> NoHash, err |-> ErrUnsecured]
    ELSE IF header.Alg \in DOMAIN algs THEN [hash |-> algs[header.Alg], err |-> nil]
    ELSE [hash |-> NoHash, err |-> ErrAlgUnk]

\* parseHeader(token): the decoded header, or a structural error.
parseHeader(token) ==
    IF token.wellFormed
    THEN [header |-> [Alg |-> token.alg, Kid |-> token.kid], err |-> nil]
    ELSE [header |-> [Alg |-> "", Kid |-> ""], err |-> errMalformed]

\* verifyAndParseClaims(token, buf, hash, verifySig): verifySig is applied to
\* the signed content and the decoded signature; its error is returned as it
\* is; the payload is parsed only after it accepted.  `sig` is the outcome of
\* that application.
verifyAndParseClaims(token, sig) ==
    IF sig.err # nil THEN [claims |-> {}, err |-> sig.err]
    ELSE IF ~token.claimsOK THEN [claims |-> {}, err |-> errMalformed]
    ELSE [claims |-> {[KeyID |-> "", payload |-> token.payload]}, err |-> nil]

(***************************************************************************)
(* KeyRegister.Check                                                       *)
(***************************************************************************)
\* for _, key := range list { if <accepts> { return nil } }; return ErrSigMiss
\* `tried` lists the candidates handed to the primitive, in order.
RECURSIVE rangeVerify(_, _, _)
rangeVerify(list, valid, tried) ==
    IF list = <<>> THEN [err |-> ErrSigMiss, tried |-> tried]
    ELSE IF Head(list) \in valid THEN [err |-> nil, tried |-> Append(tried, Head(list))]
    ELSE rangeVerify(Tail(list), valid, Append(tried, Head(list)))

\* Mutants of the closures: an exhausted list accepted, the candidates of
\* another family, the first candidate only.
verifySigHMAC_exhaustedAccepts(reg, token) ==
    [rangeVerify(reg.Secrets, token.valid, <<>>) EXCEPT !.err = nil]

verifySigRSA_firstOnly(reg, token) ==
    IF reg.RSAs = <<>> THEN [err |-> ErrSigMiss, tried |-> <<>>]
    ELSE [err |-> IF Head(reg.RSAs) \in token.valid THEN nil ELSE ErrSigMiss,
          tried |-> <<Head(reg.RSAs)>>]

verifySigHMAC_otherFamily(reg, token) ==
    rangeVerify(reg.Secrets \o reg.RSAs, token.valid, <<>>)

\* The three closures assigned to verifySig.
verifySigHMAC(reg, token) == rangeVerify(reg.Secrets, token.valid, <<>>)

verifySigRSA(reg, token) == rangeVerify(reg.RSAs, token.valid, <<>>)

\* r and s are the two halves of sig whatever its length: no length test.
verifySigECDSA(reg, token) == rangeVerify(reg.ECDSAs, token.valid, <<>>)

\* Mutants of the chain: only ErrAlgUnk keeps the HMAC verifier from being
\* assigned; a miss in all three tables falls back to the HMAC verifier.
selectVerifier_unsecuredAsHMAC(header) ==
    LET h == match(header, HMACAlgs) IN
    IF h.err # ErrAlgUnk
    THEN [consulted |-> <<"HMAC">>, verifier |-> "HMAC", hash |-> h.hash, err |-> nil]
    ELSE LET r == match(header, RSAAlgs) IN
    IF r.err = nil
    THEN [consulted |-> <<"HMAC", "RSA">>, verifier |-> "RSA", hash |-> r.hash, err |-> nil]
    ELSE IF r.err # ErrAlgUnk
    THEN [consulted |-> <<"HMAC", "RSA">>, verifier |-> "none", hash |-> r.hash, err |-> r.err]
    ELSE LET e == match(header, ECDSAAlgs) IN
    IF e.err = nil
    THEN [consulted |-> <<"HMAC", "RSA", "ECDSA">>, verifier |-> "ECDSA", hash |-> e.hash, err |-> nil]
    ELSE [consulted |-> <<"HMAC", "RSA", "ECDSA">>, verifier |-> "none", hash |-> e.hash, err |-> e.err]

selectVerifier_defaultFamily(header) ==
    LET h == match(header, HMACAlgs) IN
    IF h.err = nil
    THEN [consulted |-> <<"HMAC">>, verifier |-> "HMAC", hash |-> h.hash, err |-> nil]
    ELSE IF h.err # ErrAlgUnk
    THEN [consulted |-> <<"HMAC">>, verifier |-> "none", hash |-> h.hash, err |-> h.err]
    ELSE LET r == match(header, RSAAlgs) IN
    IF r.err = nil
    THEN [consulted |-> <<"HMAC", "RSA">>, verifier |-> "RSA", hash |-> r.hash, err |-> nil]
    ELSE IF r.err # ErrAlgUnk
    THEN [consulted |-> <<"HMAC", "RSA">>, verifier |-> "none", hash |-> r.hash, err |-> r.err]
    ELSE LET e == match(header, ECDSAAlgs) IN
    IF e.err = nil
    THEN [consulted |-> <<"HMAC", "RSA", "ECDSA">>, verifier |-> "ECDSA", hash |-> e.hash, err |-> nil]
    ELSE [consulted |-> <<"HMAC", "RSA", "ECDSA">>, verifier |-> "HMAC", hash |-> "SHA256", err |-> nil]

\* The if / else-if chain over the three tables: which tables were
\* consulted, which verifier was assigned, the hash, and the error that
\* ends the call (nil when a verifier was assigned).
selectVerifier(header) ==
    LET h == match(header, HMACAlgs) IN
    IF h.err = nil
    THEN [consulted |-> <<"HMAC">>, verifier |-> "HMAC", hash |-> h.hash, err |-> nil]
    ELSE IF h.err # ErrAlgUnk
    THEN [consulted |-> <<"HMAC">>, verifier |-> "none", hash |-> h.hash, err |-> h.err]
    ELSE LET r == match(header, RSAAlgs) IN
    IF r.err = nil
    THEN [consulted |-> <<"HMAC", "RSA">>, verifier |-> "RSA", hash |-> r.hash, err |-> nil]
    ELSE IF r.err # ErrAlgUnk
    THEN [consulted |-> <<"HMAC", "RSA">>, verifier |-> "none", hash |-> r.hash, err |-> r.err]
    ELSE LET e == match(header, ECDSAAlgs) IN
    IF e.err = nil
    THEN [consulted |-> <<"HMAC", "RSA", "ECDSA">>, verifier |-> "ECDSA", hash |-> e.hash, err |-> nil]
    ELSE [consulted |-> <<"HMAC", "RSA", "ECDSA">>, verifier |-> "none", hash |-> e.hash, err |-> e.err]

\* verifySig(content, sig, hash) for the verifier assigned.
verifySig(verifier, reg, token) ==
    CASE verifier = "HMAC" -> verifySigHMAC(reg, token)
      [] verifier = "RSA" -> verifySigRSA(reg, token)
      [] verifier = "ECDSA" -> verifySigECDSA(reg, token)

\* The end of Check: the error of verifyAndParseClaims with nil claims, or
\* the claims with the header's key identifier.
finish(header, parsed) ==
    IF parsed.err # nil THEN [claims |-> {}, err |-> parsed.err]
    ELSE [claims |-> {[c EXCEPT !.KeyID = header.Kid] : c \in parsed.claims}, err |-> nil]

CheckResult(reg, token) ==
    LET p == parseHeader(token) IN
    IF p.err # nil
    THEN [claims |-> {}, err |-> p.err, consulted |-> <<>>, verifier |-> "none",
          hash |-> NoHash, tried |-> <<>>, parsed |-> FALSE]
    ELSE LET sel == selectVerifier(p.header) IN
    IF sel.err # nil
    THEN [claims |-> {}, err |-> sel.err, consulted |-> sel.consulted, verifier |-> "none",
          hash |-> NoHash, tried |-> <<>>, parsed |-> FALSE]
    ELSE LET sig == verifySig(sel.verifier, reg, token)
             out == finish(p.header, verifyAndParseClaims(token, sig))
         IN [claims |-> out.claims, err |-> out.err, consulted |-> sel.consulted,
             verifier |-> sel.verifier, hash |-> sel.hash, tried |-> sig.tried,
             parsed |-> TRUE]

\* The tokens a caller may present.
AlgIds == {"HS256", "RS384", "ES512", "none", "PS256"}
SigShapes == {"even", "odd", "short"}   \* length of the signature against 2 * coordinate size
ValidSets == {{}, {"s1"}, {"r1"}, {"r2"}, {"e1"}, {"e2"}, {"s1", "r1"}, {"r1", "r2"}, {"e1", "e2"}}
MalformedToken ==
    [wellFormed |-> FALSE, alg |-> "", kid |-> "", sigLen |-> "even", valid |-> {},
     claimsOK |-> FALSE, payload |-> ""]
\* The length of the signature is varied for the ES tokens, where r and s
\* are cut from it.
Tokens ==
    {MalformedToken} \cup
    {t \in [wellFormed : {TRUE}, alg : AlgIds, kid : {"", "kid1"}, sigLen : SigShapes,
             valid : ValidSets, claimsOK : BOOLEAN, payload : {"claims"}] :
        t.sigLen # "even" => t.alg = "ES512"}

\* Calls on one registry are made one after the other (the caller serializes
\* loads against verification): a call starts from "idle".
Check ==
    /\ op = "idle"
    /\ \E token \in Tokens :
        /\ op' = "Check"
        /\ arg' = token
        /\ res' = CheckResult(Reg, token)
    /\ UNCHANGED <<ECDSAs, RSAs, Secrets>>

(***************************************************************************)
(* KeyRegister.LoadPEM                                                     *)
(*                                                                         *)
(* The buffer is a sequence of items.  An item with `armor` is a PEM block *)
(* pem.Decode can decode; any other item is text pem.Decode skips.  `enc`  *)
(* is the password the block is encrypted under ("" for a block without a  *)
(* DEK-Info header) and `body` what its clear bytes hold.                  *)
(***************************************************************************)
Noise == [form |-> "noise", keys |-> <<>>]

\* pem.Decode(data): the position of the next block that decodes, 0 when
\* there is none (block == nil).
pemDecode(data) ==
    IF \E i \in 1..Len(data) : data[i].armor
    THEN CHOOSE i \in 1..Len(data) :
            data[i].armor /\ \A j \in 1..(i - 1) : ~data[j].armor
    ELSE 0

IsEncryptedPEMBlock(block) == block.enc # ""

\* x509.DecryptPEMBlock(block, password): the clear bytes under the right
\* password.  Under any other password the padding test reports
\* IncorrectPasswordError, unless the last byte happens to look like padding
\* (`undetected`): then no error is returned and the bytes are noise.
DecryptPEMBlock(block, password, undetected) ==
    IF password = block.enc THEN [bytes |-> block.body, err |-> nil]
    ELSE IF undetected THEN [bytes |-> Noise, err |-> nil]
    ELSE [bytes |-> Noise, err |-> IncorrectPasswordError]

\* x509.ParseCertificates: one or more concatenated certificates (none for
\* empty bytes); here the public key of each.
ParseCertificates(bytes) ==
    IF bytes.form = "certs" THEN [certs |-> bytes.keys, err |-> nil]
    ELSE [certs |-> <<>>, err |-> errParse]

\* x509.ParsePKIXPublicKey
ParsePKIXPublicKey(bytes) ==
    IF bytes.form = "spki" THEN [key |-> bytes.keys[1], err |-> nil]
    ELSE [key |-> "", err |-> errParse]

\* x509.ParseECPrivateKey: an *ecdsa.PrivateKey, which embeds PublicKey.
ParseECPrivateKey(bytes) ==
    IF bytes.form = "ecpriv"
    THEN [key |-> [PublicKey |-> bytes.keys[1], D |-> PrivateOf(bytes.keys[1])], err |-> nil]
    ELSE [key |-> [PublicKey |-> "", D |-> ""], err |-> errParse]

\* x509.ParsePKCS1PrivateKey: an *rsa.PrivateKey, which embeds PublicKey.
ParsePKCS1PrivateKey(bytes) ==
    IF bytes.form = "rsapriv"
    THEN [key |-> [PublicKey |-> bytes.keys[1], D |-> PrivateOf(bytes.keys[1])], err |-> nil]
    ELSE [key |-> [PublicKey |-> "", D |-> ""], err |-> errParse]

\* Mutant of add: the key is put in front of the list.
add_prepend(r, key) ==
    IF key \in ECDSAPublicKeys
    THEN [r |-> [r EXCEPT !.ECDSAs = <<key>> \o @], err |-> nil]
    ELSE IF key \in RSAPublicKeys
    THEN [r |-> [r EXCEPT !.RSAs = <<key>> \o @], err |-> nil]
    ELSE [r |-> r, err |-> errUnsupportedKeyType]

\* r.add(key): the type switch over the key's dynamic type.
add(r, key) ==
    IF key \in ECDSAPublicKeys
    THEN [r |-> [r EXCEPT !.ECDSAs = Append(@, key)], err |-> nil]
    ELSE IF key \in RSAPublicKeys
    THEN [r |-> [r EXCEPT !.RSAs = Append(@, key)], err |-> nil]
    ELSE [r |-> r, err |-> errUnsupportedKeyType]

\* for _, c := range certs { if err := r.add(c.PublicKey); err != nil { return n, err } }
RECURSIVE addCerts(_, _)
addCerts(r, certs) ==
    IF certs = <<>> THEN [r |-> r, err |-> nil]
    ELSE LET a == add(r, Head(certs)) IN
         IF a.err # nil THEN a ELSE addCerts(a.r, Tail(certs))

\* Mutant: the private scalar is kept in place of the public key.
addECPrivate_keepsPrivate(r, key) == [r EXCEPT !.ECDSAs = Append(@, key.D)]

\* case "EC PRIVATE KEY": r.ECDSAs = append(r.ECDSAs, &key.PublicKey)
addECPrivate(r, key) == [r EXCEPT !.ECDSAs = Append(@, key.PublicKey)]

\* case "RSA PRIVATE KEY": r.RSAs = append(r.RSAs, &key.PublicKey)
addRSAPrivate(r, key) == [r EXCEPT !.RSAs = Append(@, key.PublicKey)]

\* switch block.Type
loadType(r, type, bytes) ==
    CASE type = "CERTIFICATE" ->
            LET p == ParseCertificates(bytes) IN
            IF p.err # nil THEN [r |-> r, err |-> p.err] ELSE addCerts(r, p.certs)
      [] type = "PUBLIC KEY" ->
            LET p == ParsePKIXPublicKey(bytes) IN
            IF p.err # nil THEN [r |-> r, err |-> p.err] ELSE add(r, p.key)
      [] type = "EC PRIVATE KEY" ->
            LET p == ParseECPrivateKey(bytes) IN
            IF p.err # nil THEN [r |-> r, err |-> p.err]
            ELSE [r |-> addECPrivate(r, p.key), err |-> nil]
      [] type = "RSA PRIVATE KEY" ->
            LET p == ParsePKCS1PrivateKey(bytes) IN
            IF p.err # nil THEN [r |-> r, err |-> p.err]
            ELSE [r |-> addRSAPrivate(r, p.key), err |-> nil]
      [] OTHER -> [r |-> r, err |-> errUnknownPEMType]

\* Mutant: a block without encryption is taken whatever the password.
decryptBlock_noPolicy(block, password, undetected) ==
    IF IsEncryptedPEMBlock(block) THEN DecryptPEMBlock(block, password, undetected)
    ELSE [bytes |-> block.body, err |-> nil]

\* The password policy ahead of the type switch.
decryptBlock(block, password, undetected) ==
    IF IsEncryptedPEMBlock(block) THEN DecryptPEMBlock(block, password, undetected)
    ELSE IF password # "" THEN [bytes |-> block.body, err |-> errUnencryptedPEM]
    ELSE [bytes |-> block.body, err |-> nil]

\* One turn of the loop on a decoded block.
loadBlock(r, block, password, undetected) ==
    LET d == decryptBlock(block, password, undetected) IN
    IF d.err # nil THEN [r |-> r, err |-> d.err]
    ELSE loadType(r, block.Type, d.bytes)

\* The loop of LoadPEM.  `off` counts the items consumed so far, so that
\* `at` is the position in the buffer of the block that ended the load
\* with an error (0 when none did).
RECURSIVE LoadPEMLoop(_, _, _, _, _, _)
LoadPEMLoop(r, data, password, undetected, n, off) ==
    LET i == pemDecode(data) IN
    IF i = 0 THEN [r |-> r, n |-> n, err |-> nil, at |-> 0]
    ELSE LET step == loadBlock(r, data[i], password, undetected) IN
         IF step.err # nil
         THEN [r |-> step.r, n |-> n, err |-> step.err, at |-> off + i]
         ELSE LoadPEMLoop(step.r, SubSeq(data, i + 1, Len(data)), password,
                          undetected, n + 1, off + i)

\* The buffers a caller may load.
Passwords == {"", "pw1"}
Junk == [armor |-> FALSE, enc |-> "", Type |-> "", body |-> Noise]
Block(type, enc, form, keys) ==
    [armor |-> TRUE, enc |-> enc, Type |-> type, body |-> [form |-> form, keys |-> keys]]
Items ==
    { Junk,
      Block("CERTIFICATE", "", "certs", <<"e1", "r2">>),
      Block("CERTIFICATE", "", "certs", <<"r1", "o1">>),
      Block("PUBLIC KEY", "pw1", "spki", <<"e1">>),
      Block("EC PRIVATE KEY", "", "ecpriv", <<"e2">>),
      Block("EC PRIVATE KEY", "", "noise", <<>>),
      Block("RSA PRIVATE KEY", "", "rsapriv", <<"r2">>),
      Block("RSA PRIVATE KEY", "pw2", "rsapriv", <<"r1">>),
      Block("DSA PRIVATE KEY", "", "noise", <<>>) }
Buffers == UNION {[1..k -> Items] : k \in 0..MaxBlocks}

LoadPEM ==
    /\ op = "idle"
    /\ \E data \in Buffers, password \in Passwords, undetected \in BOOLEAN :
        LET out == LoadPEMLoop(Reg, data, password, undetected, 0, 0) IN
        /\ Len(out.r.ECDSAs) + Len(out.r.RSAs) + Len(out.r.Secrets) <= MaxCreds
        /\ ECDSAs' = out.r.ECDSAs
        /\ RSAs' = out.r.RSAs
        /\ Secrets' = out.r.Secrets
        /\ op' = "LoadPEM"
        /\ arg' = [data |-> data, password |-> password]
        /\ res' = [n |-> out.n, err |-> out.err, at |-> out.at,
                   old |-> [ECDSAs |-> Len(ECDSAs), RSAs |-> Len(RSAs)]]

(***************************************************************************)
(* The caller appends a secret to the exported field Secrets.              *)
(***************************************************************************)
AppendSecret ==
    /\ op = "idle"
    /\ Len(ECDSAs) + Len(RSAs) + Len(Secrets) < MaxCreds
    /\ \E secret \in SecretBytes :
        /\ Secrets' = Append(Secrets, secret)
        /\ arg' = secret
    /\ op' = "Append"
    /\ res' = nil
    /\ UNCHANGED <<ECDSAs, RSAs>>

\* The caller is done with what the last call returned; the registry stays.
Return ==
    /\ op # "idle"
    /\ op' = "idle"
    /\ arg' = nil
    /\ res' = nil
    /\ UNCHANGED <<ECDSAs, RSAs, Secrets>>

Init ==
    /\ ECDSAs = <<>>
    /\ RSAs = <<>>
    /\ Secrets = <<>>
    /\ op = "idle"
    /\ arg = nil
    /\ res = nil

Next ==
    \/ Check
    \/ LoadPEM
    \/ AppendSecret
    \/ Return

Spec == Init /\ [][Next]_vars

(***************************************************************************)
(* Properties                                                              *)
(***************************************************************************)
Range(s) == {s[i] : i \in 1..Len(s)}

IsPrefix(s, t) == Len(s) <= Len(t) /\ SubSeq(t, 1, Len(s)) = s

Table(family) ==
    CASE family = "HMAC" -> HMACAlgs [] family = "RSA" -> RSAAlgs [] family = "ECDSA" -> ECDSAAlgs

\* The family whose closed table holds the identifier, "none" when no table does.
FamilyOf(alg) ==
    IF alg \in DOMAIN HMACAlgs THEN "HMAC"
    ELSE IF alg \in DOMAIN RSAAlgs THEN "RSA"
    ELSE IF alg \in DOMAIN ECDSAAlgs THEN "ECDSA"
    ELSE "none"

\* The credential list of a family ("none" has no list).
FamilyList(family) ==
    CASE family = "HMAC" -> Secrets [] family = "RSA" -> RSAs
      [] family = "ECDSA" -> ECDSAs [] OTHER -> <<>>

Checked == op = "Check"
Loaded == op = "LoadPEM"

\* What the last LoadPEM appended to each list.
AddedECDSAs == SubSeq(ECDSAs, res.old.ECDSAs + 1, Len(ECDSAs))
AddedRSAs == SubSeq(RSAs, res.old.RSAs + 1, Len(RSAs))

\* The keys of the set `keys` held by the first k items of a buffer, in order.
RECURSIVE Held(_, _, _)
Held(data, k, keys) ==
    IF k = 0 THEN <<>>
    ELSE Held(data, k - 1, keys) \o
         (IF data[k].armor THEN SelectSeq(data[k].body.keys, LAMBDA x : x \in keys) ELSE <<>>)

\* A block that LoadPEM takes without error under the password.
KnownTypes == {"CERTIFICATE", "PUBLIC KEY", "EC PRIVATE KEY", "RSA PRIVATE KEY"}
FormOf(type) ==
    CASE type = "CERTIFICATE" -> "certs" [] type = "PUBLIC KEY" -> "spki"
      [] type = "EC PRIVATE KEY" -> "ecpriv" [] type = "RSA PRIVATE KEY" -> "rsapriv"
      [] OTHER -> "none"
PolicyMet(b, password) == b.enc = password
ValidBlock(b, password) ==
    /\ b.armor
    /\ PolicyMet(b, password)
    /\ b.Type \in KnownTypes
    /\ b.body.form = FormOf(b.Type)
    /\ Range(b.body.keys) \subseteq RSAPublicKeys \cup ECDSAPublicKeys

\* C1: Check returns claims if and only if it returns no error, and it
\* returns claims only for a well-formed token whose payload parses and whose
\* signature the verifier of the family of the header's algorithm accepted
\* with a key of that family's list; in every other outcome the claims are
\* nil and the error is not.
C1_ClaimsOnlyWhenSignatureChecksOut ==
    Checked =>
        /\ Cardinality(res.claims) <= 1
        /\ (res.claims # {}) <=> (res.err = nil)
        /\ res.claims # {} =>
            /\ arg.wellFormed
            /\ arg.claimsOK
            /\ res.verifier # "none"
            /\ res.verifier = FamilyOf(arg.alg)
            /\ Range(FamilyList(res.verifier)) \cap arg.valid # {}
            /\ res.claims = {[KeyID |-> arg.kid, payload |-> arg.payload]}
        /\ (~arg.wellFormed \/ ~arg.claimsOK \/ FamilyOf(arg.alg) = "none"
              \/ Range(FamilyList(FamilyOf(arg.alg))) \cap arg.valid = {}) =>
                res.claims = {} /\ res.err # nil

C1_Witness ==
    /\ Checked
    /\ res.claims # {}
    /\ res.verifier = "HMAC"
    /\ Len(Secrets) = 2
    /\ RSAs # <<>>

\* C2: a token of family F checked against a registry whose credentials are
\* all of other families fails with ErrSigMiss or ErrAlgUnk; and the
\* candidates a Check tries are taken from the list of the family of the
\* header's algorithm only.
C2_NoCrossFamilySuccess ==
    Checked /\ arg.wellFormed =>
        /\ (FamilyOf(arg.alg) # "none" /\ FamilyList(FamilyOf(arg.alg)) = <<>>) =>
            /\ res.claims = {}
            /\ res.err \in {ErrSigMiss, ErrAlgUnk}
            /\ res.tried = <<>>
        /\ IsPrefix(res.tried, FamilyList(FamilyOf(arg.alg)))

\* An HS256 token whose HMAC is keyed with the bytes of the registered RSA key.
C2_Witness ==
    /\ Checked
    /\ arg.wellFormed
    /\ arg.alg = "HS256"
    /\ arg.valid = {"r1"}
    /\ Secrets = <<>>
    /\ RSAs = <<"r1">>
    /\ res.err = ErrSigMiss

\* C3: a token whose header declares the algorithm none is rejected whatever
\* the registry holds: ErrUnsecured from the first match, nil claims, no
\* verifier assigned, no candidate tried, no later table consulted.
C3_UnsecuredAlwaysRejected ==
    Checked /\ arg.wellFormed /\ arg.alg = "none" =>
        /\ res.claims = {}
        /\ res.err = ErrUnsecured
        /\ res.verifier = "none"
        /\ res.tried = <<>>
        /\ res.consulted = <<"HMAC">>
        /\ ~res.parsed

C3_Witness ==
    /\ Checked
    /\ arg.wellFormed
    /\ arg.alg = "none"
    /\ arg.valid = {"s1", "r1"}
    /\ Secrets = <<"s1">>
    /\ RSAs = <<"r1">>
    /\ ECDSAs # <<>>
    /\ res.err = ErrUnsecured

\* C4 (as claimed): after LoadPEM on N valid blocks followed by one invalid
\* block, the count is N, the call added N credentials, and the error is
\* not nil.
C4_CountIsCredentialsAdded ==
    (/\ Loaded
     /\ arg.data # <<>>
     /\ \A i \in 1..Len(arg.data) : arg.data[i].armor
     /\ \A i \in 1..(Len(arg.data) - 1) : ValidBlock(arg.data[i], arg.password)
     /\ ~ValidBlock(arg.data[Len(arg.data)], arg.password)) =>
        /\ res.err # nil
        /\ res.n = Len(arg.data) - 1
        /\ Len(AddedECDSAs) + Len(AddedRSAs) = Len(arg.data) - 1

C6_MalformedSignatureTriesNoKey ==
    (Checked /\ res.verifier = "ECDSA" /\ arg.sigLen # "even") =>
        res.tried = <<>> /\ res.err # nil

C8_AnyCandidateValidates ==
    (Checked /\ res.parsed) =>
        LET list == FamilyList(res.verifier)
            hits == {i \in 1..Len(list) : list[i] \in arg.valid}
        IN /\ (res.err # ErrSigMiss) <=> (hits # {})
           /\ hits = {} => res.tried = list /\ res.claims = {}
           /\ hits # {} =>
                \E i \in hits :
                    /\ \A j \in hits : i <= j
                    /\ res.tried = SubSeq(list, 1, i)
           /\ list = <<>> => res.err = ErrSigMiss

\* The second of two RSA candidates validates; the first does not.
C8_Witness ==
    /\ Checked
    /\ res.verifier = "RSA"
    /\ Len(RSAs) >= 2
    /\ RSAs[1] \notin arg.valid
    /\ RSAs[2] \in arg.valid
    /\ res.err = nil
    /\ res.tried = <<RSAs[1], RSAs[2]>>

\* C9: the tables are consulted in the order HMAC, RSA, ECDSA; a later one
\* only after every earlier one reported ErrAlgUnk; a verifier is assigned
\* only for the table consulted last and only when it holds the identifier,
\* with the hash of that table; any other error of a match ends the call
\* with that error, and a miss in all three ends it with ErrAlgUnk, in both
\* cases before verifyAndParseClaims.
C9_DispatchOrder ==
    (Checked /\ arg.wellFormed) =>
        LET c == res.consulted
            hdr == [Alg |-> arg.alg, Kid |-> arg.kid]
            last == match(hdr, Table(c[Len(c)]))
        IN /\ \E k \in 1..3 : c = SubSeq(<<"HMAC", "RSA", "ECDSA">>, 1, k)
           /\ \A j \in 1..(Len(c) - 1) : match(hdr, Table(c[j])).err = ErrAlgUnk
           /\ res.verifier # "none" =>
                /\ res.verifier = c[Len(c)]
                /\ last.err = nil
                /\ res.hash = Table(res.verifier)[arg.alg]
                /\ res.parsed
           /\ res.verifier = "none" =>
                /\ last.err # nil
                /\ res.err = last.err
                /\ Len(c) < 3 => res.err # ErrAlgUnk
                /\ ~res.parsed
                /\ res.tried = <<>>
                /\ res.claims = {}
           /\ FamilyOf(arg.alg) = "none" => res.verifier = "none"

\* An identifier of no table: all three consulted, ErrAlgUnk.
C9_Witness ==
    /\ Checked
    /\ arg.wellFormed
    /\ arg.alg = "PS256"
    /\ arg.valid = {"s1"}
    /\ Secrets = <<"s1">>
    /\ res.consulted = <<"HMAC", "RSA", "ECDSA">>
    /\ res.err = ErrAlgUnk
    /\ ~res.parsed

\* C10: a Check leaves the three lists as they are; a LoadPEM leaves
\* Secrets as it is and keeps the former RSAs and ECDSAs as a prefix of the
\* new ones.
C10_AppendOnly ==
    [][/\ op' = "Check" => <<ECDSAs, RSAs, Secrets>>' = <<ECDSAs, RSAs, Secrets>>
       /\ op' = "LoadPEM" =>
            /\ Secrets' = Secrets
            /\ IsPrefix(RSAs, RSAs')
            /\ IsPrefix(ECDSAs, ECDSAs')]_vars

\* A LoadPEM that failed after it appended a duplicate to a list that was
\* not empty.
C10_Witness ==
    /\ Loaded
    /\ res.err # nil
    /\ res.old.RSAs = 1
    /\ RSAs = <<"r2", "r2">>
    /\ Secrets # <<>>
====
